---- MODULE Spec2Model ----
(***************************************************************************)
(* Glass-refraction task generator (src/src/generator.py, config.py,       *)
(* prompts.py) as a state machine.                                          *)
(*                                                                          *)
(* Numbers.  Python floats are modelled in fixed point: one unit is        *)
(* 1/Milli.  Refractive indices, sines, tangents and pixel coordinates are *)
(* integers counting thousandths; angles are whole degrees.  math.sin,     *)
(* math.tan and math.asin are tables over whole degrees, math.asin with    *)
(* its domain error outside [-1, 1].                                       *)
(***************************************************************************)
EXTENDS Integers, Sequences, FiniteSets, TLC

\* ------------------------------------------------------------------ state
VARIABLES
    config,            \* the TaskConfig the generator was built with
    encoder_available, \* VideoGenerator.is_available() at construction
    video_generator,   \* self.video_generator is not None
    rng,               \* state of the shared random generator
    pc,                \* position inside generate_task_pair
    taskNo,            \* calls of generate_task_pair completed
    runStart,          \* rng when the current call began
    draws,             \* what the current call has drawn from rng, in order
    sin_raw,           \* sin_theta_refracted before the clamp (line 82)
    clamp_taken,       \* the branch of line 85 was taken
    task_data,
    first_image,
    final_image,
    hold_frames,       \* arguments of _create_refraction_animation_frames
    transition_frames,
    frames,            \* the list being built
    first_frame,
    final_frame,
    k,                 \* loop counter of the running loop
    nextObj,           \* images created so far by the current call
    encoder_answer,    \* what the encoder answered in the current call
    video_path,
    prompt,
    result,            \* the TaskPair returned, or None
    error,             \* the exception that ended the call, or None
    history            \* summaries of the completed calls, oldest first

\* ------------------------------------------------------------------ bounds
MaxHold  == 1    \* hold_frames arguments explored: 0..MaxHold
MaxTrans == 3    \* transition_frames arguments explored: 1..MaxTrans
MaxTasks == 2    \* calls of generate_task_pair in one behaviour
RngMod   == 8    \* number of states of the shared pseudorandom generator

\* ------------------------------------------------------- program constants
Milli == 1000                       \* fixed-point unit standing for 1.0
hold_frames_default == 5            \* generator.py:295
transition_frames_default == 25     \* generator.py:296
RayMargin == 50                     \* generator.py:149,151 (ray_start_y)
NumTemplates == 3                   \* prompts.py:18-22

None == "None"

\* ----------------------------------------------------------- arithmetic
Abs(a) == IF a < 0 THEN -a ELSE a

\* Python's a // b on ints (floor division), b > 0: width // 2.
FloorDiv(a, b) == a \div b

\* Python's a / b on floats, in fixed point: the quotient truncated toward
\* zero.  The caller guards b # 0 (a zero divisor raises ZeroDivisionError).
Quot(a, b) ==
    LET q == Abs(a) \div Abs(b)
    IN  IF (a < 0) = (b < 0) THEN q ELSE -q

\* ------------------------------------------------------------------- trig
SinTab ==
   << 0, 17, 35, 52, 70, 87, 105, 122, 139, 156,
      174, 191, 208, 225, 242, 259, 276, 292, 309, 326,
      342, 358, 375, 391, 407, 423, 438, 454, 469, 485,
      500, 515, 530, 545, 559, 574, 588, 602, 616, 629,
      643, 656, 669, 682, 695, 707, 719, 731, 743, 755,
      766, 777, 788, 799, 809, 819, 829, 839, 848, 857,
      866, 875, 883, 891, 899, 906, 914, 921, 927, 934,
      940, 946, 951, 956, 961, 966, 970, 974, 978, 982,
      985, 988, 990, 993, 995, 996, 998, 999, 999, 1000,
      1000 >>

\* tan of 0..89 degrees; the last entry stands for math.tan(math.pi / 2),
\* which is finite in floating point (1.6e16): a value larger than any
\* ratio of canvas distances.
TanTab ==
   << 0, 17, 35, 52, 70, 87, 105, 123, 141, 158,
      176, 194, 213, 231, 249, 268, 287, 306, 325, 344,
      364, 384, 404, 424, 445, 466, 488, 510, 532, 554,
      577, 601, 625, 649, 675, 700, 727, 754, 781, 810,
      839, 869, 900, 933, 966, 1000, 1036, 1072, 1111, 1150,
      1192, 1235, 1280, 1327, 1376, 1428, 1483, 1540, 1600, 1664,
      1732, 1804, 1881, 1963, 2050, 2145, 2246, 2356, 2475, 2605,
      2747, 2904, 3078, 3271, 3487, 3732, 4011, 4331, 4705, 5145,
      5671, 6314, 7115, 8144, 9514, 11430, 14301, 19081, 28636, 57290,
      2000000 >>

\* math.sin(math.radians(deg)) for deg in -90..90 (odd function).
Sin(deg) == IF deg < 0 THEN -SinTab[1 - deg] ELSE SinTab[1 + deg]

\* math.tan of an angle of deg degrees, deg in -90..90 (odd function).
Tan(deg) == IF deg < 0 THEN -TanTab[1 - deg] ELSE TanTab[1 + deg]

\* math.asin(x) in whole degrees: defined on [-1, 1] only; outside it
\* Python raises ValueError("math domain error").
AsinDefined(x) == -Milli <= x /\ x <= Milli

AsinPos(x) == CHOOSE d \in 0..90 : SinTab[1 + d] <= x /\ (d = 90 \/ SinTab[2 + d] > x)

Asin(x) == IF x < 0 THEN -AsinPos(-x) ELSE AsinPos(x)

\* ----------------------------------------------------------- configuration
\* TaskConfig: every field is a plain value the caller may set.  The first
\* element of each set is the default of config.py.
ImageSizes    == { <<512, 512>>, <<301, 701>> }
NGlassRanges  == { <<1300, 2000>>, <<1000, 1000>>, <<500, 900>> }
ThetaRanges   == { <<5, 80>>, <<0, 90>>, <<90, 90>>, <<-80, -30>> }

TaskConfig ==
    [ image_size      : ImageSizes,
      generate_videos : BOOLEAN,
      n_glass_min     : {r[1] : r \in NGlassRanges},
      n_glass_max     : {r[2] : r \in NGlassRanges},
      theta_min       : {r[1] : r \in ThetaRanges},
      theta_max       : {r[2] : r \in ThetaRanges},
      n_air           : {Milli},
      random_seed     : 0..(RngMod - 1) ]

Configs ==
    { c \in TaskConfig :
        /\ <<c.n_glass_min, c.n_glass_max>> \in NGlassRanges
        /\ <<c.theta_min, c.theta_max>> \in ThetaRanges }

\* Arguments of _create_refraction_animation_frames: the defaults the video
\* step passes, a small grid, and an 11-transition animation whose frame 3
\* has progress exactly 3/10.
FrameCountArgs ==
    {<<hold_frames_default, transition_frames_default>>, <<0, 11>>}
        \cup ((0..MaxHold) \X (1..MaxTrans))

\* ------------------------------------------------- the shared random module
\* The process-wide generator of the random module: a deterministic state
\* machine; every sampling call advances it once and reads the new state.
RngNext(s) == (5 * s + 3) % RngMod

\* random.uniform(a, b) = a + (b - a) * random(), random() in [0, 1).
Uniform(a, b, s) == a + Quot((b - a) * RngNext(s), RngMod)

\* random.choice over a list of n items: the index (0-based) it picks.
Choice(n, s) == (RngNext(s) * n) \div RngMod

\* ---------------------------------------------------------------- physics
\* generator.py:82  sin_theta_refracted before the clamp.
SinRefractedSwapped(n_air, theta_degrees, n_glass) ==
    Quot(n_glass * Sin(theta_degrees), n_air)

SinRefracted(n_air, theta_degrees, n_glass) ==
    Quot(n_air * Sin(theta_degrees), n_glass)

\* generator.py:85-86  the clamp.
ClampTaken(sin_t) == sin_t > Milli

Clamp(sin_t) == IF ClampTaken(sin_t) THEN Milli ELSE sin_t

\* ----------------------------------------------------------------- layout
\* The centre rounded up instead of down.
CenterCeil(size) == << FloorDiv(size[1] + 1, 2), FloorDiv(size[2] + 1, 2) >>

\* width // 2, height // 2 ; glass_y = center_y.
Center(size) == << FloorDiv(size[1], 2), FloorDiv(size[2], 2) >>

\* The incident ray entering from the right of the normal.
IncidentStartMirrored(size, theta) ==
    LET c == Center(size)
    IN  << c[1] * Milli + (c[2] - RayMargin) * Tan(theta), RayMargin * Milli >>

\* Start of the incident ray, in thousandths of a pixel.
IncidentStart(size, theta) ==
    LET c == Center(size)
    IN  << c[1] * Milli - (c[2] - RayMargin) * Tan(theta), RayMargin * Milli >>

IncidentRay(size, theta) ==
    LET c == Center(size)
    IN  [ start |-> IncidentStart(size, theta),
          end   |-> << c[1] * Milli, c[2] * Milli >> ]

\* The clip without its side-edge branches.
ClipBottomOnly(size, theta_refracted) ==
    [ branch |-> "bottom", error |-> FALSE,
      x |-> Center(size)[1] * Milli
              + (size[2] - Center(size)[2]) * Tan(theta_refracted),
      y |-> size[2] * Milli ]

\* The boundary clip of the refracted ray (generator.py:239-257, repeated
\* at 366-380).  error is TRUE where the code would divide by a zero tangent.
ClipToBoundary(size, theta_refracted) ==
    LET width   == size[1]
        height  == size[2]
        center_x == Center(size)[1]
        glass_y  == Center(size)[2]
        t == Tan(theta_refracted)
        distance_to_bottom == height - glass_y
        x_at_bottom == center_x * Milli + distance_to_bottom * t
    IN  IF 0 <= x_at_bottom /\ x_at_bottom <= width * Milli
        THEN [ branch |-> "bottom", error |-> FALSE,
               x |-> x_at_bottom, y |-> height * Milli ]
        ELSE IF x_at_bottom > width * Milli
        THEN IF t = 0
             THEN [ branch |-> "right", error |-> TRUE, x |-> 0, y |-> 0 ]
             ELSE [ branch |-> "right", error |-> FALSE,
                    x |-> width * Milli,
                    y |-> glass_y * Milli
                            + Quot((width - center_x) * Milli * Milli, t) ]
        ELSE IF t = 0
             THEN [ branch |-> "left", error |-> TRUE, x |-> 0, y |-> 0 ]
             ELSE [ branch |-> "left", error |-> FALSE,
                    x |-> 0,
                    y |-> glass_y * Milli
                            + Quot(center_x * Milli * Milli, t) ]

\* ------------------------------------------------------------------ loops
\* for _ in range(n): after the iteration with counter j, another follows.
LoopContinuesShort(j, n) == j + 2 < n

LoopContinues(j, n) == j + 1 < n

\* -------------------------------------------------------------- rendering
\* An image is what the claims can observe of a raster: the object it is
\* (obj), the render mode, the scene centre, the incident segment, the
\* refracted segment from the centre (drawn or not) and whether the angle
\* arc and label are drawn.  Coordinates are thousandths of a pixel.
NoRay == [ drawn |-> FALSE, x |-> 0, y |-> 0 ]

\* _render_initial_state
RenderInitialState(size, td, obj) ==
    [ obj       |-> obj,
      mode      |-> "initial",
      center    |-> Center(size),
      glass_y   |-> Center(size)[2],
      incident  |-> IncidentRay(size, td.theta_incident_degrees),
      refracted |-> NoRay,
      label     |-> TRUE,
      progress  |-> <<0, 1>> ]

\* _render_final_state (the caller handles clip.error)
RenderFinalState(size, td, obj) ==
    LET clip == ClipToBoundary(size, td.theta_refracted_degrees)
    IN  [ obj       |-> obj,
          mode      |-> "final",
          center    |-> Center(size),
          glass_y   |-> Center(size)[2],
          incident  |-> IncidentRay(size, td.theta_incident_degrees),
          refracted |-> [ drawn |-> TRUE, x |-> clip.x, y |-> clip.y ],
          label     |-> FALSE,
          progress  |-> <<1, 1>> ]

\* progress = i / (transition_frames - 1) if transition_frames > 1 else 1.0,
\* kept as the exact fraction <<numerator, denominator>>.
ProgressReversed(i, transitions) ==
    IF transitions > 1 THEN <<transitions - 1 - i, transitions - 1>> ELSE <<1, 1>>

Progress(i, transitions) ==
    IF transitions > 1 THEN <<i, transitions - 1>> ELSE <<1, 1>>

\* progress > 0
ProgressPositive(p) == p[1] > 0

\* progress < 0.3
LabelVisibleLoose(p) == 10 * p[1] <= 3 * p[2]

LabelVisibleInverted(p) == 10 * p[1] >= 3 * p[2]

LabelVisible(p) == 10 * p[1] < 3 * p[2]

\* current_end = center + (final_end - center) * progress
InterpolateHalf(from, to, p) == from + Quot((to - from) * p[1], 2 * p[2])

InterpolateBackward(from, to, p) == to - Quot((to - from) * p[1], p[2])

Interpolate(from, to, p) == from + Quot((to - from) * p[1], p[2])

\* The body of the transition loop for index i (generator.py:330-409).
TransitionFrame(size, td, i, transitions, obj) ==
    LET p    == Progress(i, transitions)
        c    == Center(size)
        clip == ClipToBoundary(size, td.theta_refracted_degrees)
    IN  [ obj       |-> obj,
          mode      |-> "transition",
          center    |-> c,
          glass_y   |-> c[2],
          incident  |-> [ start |-> IncidentStart(size, td.theta_incident_degrees),
                          end   |-> << c[1] * Milli, c[2] * Milli >> ],
          refracted |-> IF ProgressPositive(p)
                        THEN [ drawn |-> TRUE,
                               x |-> Interpolate(c[1] * Milli, clip.x, p),
                               y |-> Interpolate(c[2] * Milli, clip.y, p) ]
                        ELSE NoRay,
          label     |-> LabelVisible(p),
          progress  |-> p ]

\* ---------------------------------------------------------------- prompts
\* "{n_glass:.2f}": the index rounded to hundredths.
FormatTwoDecimals(n) == (n + 5) \div 10

\* ---------------------------------------------------------- state tuples
vars == << config, encoder_available, video_generator, rng, pc, taskNo,
           runStart, draws, sin_raw, clamp_taken, task_data, first_image,
           final_image, hold_frames, transition_frames, frames, first_frame,
           final_frame, k, nextObj, encoder_answer, video_path, prompt,
           result, error, history >>

physVars  == << sin_raw, clamp_taken, task_data >>
imageVars == << first_image, final_image >>
animVars  == << hold_frames, transition_frames, frames, first_frame,
                final_frame, k >>
envVars   == << config, encoder_available, video_generator >>

NoImage == [ obj |-> <<0, 0>>, mode |-> "none", center |-> <<0, 0>>,
             glass_y |-> 0,
             incident |-> [ start |-> <<0, 0>>, end |-> <<0, 0>> ],
             refracted |-> NoRay, label |-> FALSE, progress |-> <<0, 1>> ]

NoTaskData == [ n_glass |-> 0, n_air |-> 0, theta_incident_degrees |-> 0,
                theta_refracted_degrees |-> 0, type |-> "none" ]

NoPrompt == [ template |-> 0, n_glass |-> 0 ]

NoPair == [ returned |-> FALSE, prompt |-> NoPrompt, first_image |-> NoImage,
            final_image |-> NoImage, ground_truth_video |-> None ]

\* The encoder's answer to create_video_from_frames: a path or a failure.
EncoderResults == { "video.mp4", None }

\* TaskGenerator.__init__ under a config, with the shared generator seeded
\* from config.random_seed.
Init ==
    /\ config \in Configs
    /\ encoder_available \in BOOLEAN
    /\ video_generator = (config.generate_videos /\ encoder_available)
    /\ rng = config.random_seed
    /\ pc = "idle"
    /\ taskNo = 0
    /\ runStart = config.random_seed
    /\ draws = << >>
    /\ sin_raw = 0
    /\ clamp_taken = FALSE
    /\ task_data = NoTaskData
    /\ first_image = NoImage
    /\ final_image = NoImage
    /\ hold_frames = 0
    /\ transition_frames = 0
    /\ frames = << >>
    /\ first_frame = NoImage
    /\ final_frame = NoImage
    /\ k = 0
    /\ nextObj = 0
    /\ encoder_answer = "not called"
    /\ video_path = None
    /\ prompt = NoPrompt
    /\ result = NoPair
    /\ error = None
    /\ history = << >>

\* The caller re-seeds the shared generator between two calls.
Reseed ==
    /\ pc = "idle"
    /\ taskNo > 0
    /\ taskNo < MaxTasks
    /\ rng # config.random_seed
    /\ rng' = config.random_seed
    /\ UNCHANGED << envVars, pc, taskNo, runStart, draws, physVars, imageVars,
                    animVars, nextObj, video_path, prompt, result, error,
                    history,
                    encoder_answer >>

\* generate_task_pair line 42: _generate_task_data (lines 71-99).
GenerateTaskData ==
    /\ pc = "idle"
    /\ taskNo < MaxTasks
    /\ LET n_glass == Uniform(config.n_glass_min, config.n_glass_max, rng)
           rng1    == RngNext(rng)
           theta_degrees == Uniform(config.theta_min, config.theta_max, rng1)
           rng2    == RngNext(rng1)
           sin_t   == SinRefracted(config.n_air, theta_degrees, n_glass)
           clamped == Clamp(sin_t)
       IN  /\ rng' = rng2
           /\ runStart' = rng
           /\ draws' = << "n_glass", "theta_incident" >>
           /\ sin_raw' = sin_t
           /\ clamp_taken' = ClampTaken(sin_t)
           /\ IF AsinDefined(clamped)
              THEN /\ task_data' =
                        [ n_glass |-> n_glass,
                          n_air   |-> config.n_air,
                          theta_incident_degrees  |-> theta_degrees,
                          theta_refracted_degrees |-> Asin(clamped),
                          type    |-> "default" ]
                   /\ pc' = "render_initial"
                   /\ error' = None
              ELSE /\ task_data' = NoTaskData
                   /\ pc' = "raised"
                   /\ error' = "ValueError"
    /\ nextObj' = 0
    /\ UNCHANGED << envVars, taskNo, imageVars, animVars, video_path, prompt,
                    result, history,
                    encoder_answer >>

\* A render step that samples from the shared generator.
RenderFirstImageDrawing ==
    /\ pc = "render_initial"
    /\ first_image' = RenderInitialState(config.image_size, task_data,
                                         <<taskNo, nextObj>>)
    /\ nextObj' = nextObj + 1
    /\ rng' = RngNext(rng)
    /\ pc' = "render_final"
    /\ UNCHANGED << envVars, taskNo, runStart, draws, physVars,
                    final_image, animVars, video_path, prompt, result, error,
                    history, encoder_answer >>

\* generate_task_pair line 45.
RenderFirstImage ==
    /\ pc = "render_initial"
    /\ first_image' = RenderInitialState(config.image_size, task_data,
                                         <<taskNo, nextObj>>)
    /\ nextObj' = nextObj + 1
    /\ pc' = "render_final"
    /\ UNCHANGED << envVars, rng, taskNo, runStart, draws, physVars,
                    final_image, animVars, video_path, prompt, result, error,
                    history,
                    encoder_answer >>

\* generate_task_pair line 46.
RenderFinalImage ==
    /\ pc = "render_final"
    /\ IF ClipToBoundary(config.image_size,
                         task_data.theta_refracted_degrees).error
       THEN /\ pc' = "raised"
            /\ error' = "ZeroDivisionError"
            /\ UNCHANGED << final_image, nextObj >>
       ELSE /\ final_image' = RenderFinalState(config.image_size, task_data,
                                               <<taskNo, nextObj>>)
            /\ nextObj' = nextObj + 1
            /\ pc' = "video"
            /\ error' = None
    /\ UNCHANGED << envVars, rng, taskNo, runStart, draws, physVars,
                    first_image, animVars, video_path, prompt, result,
                    history,
                    encoder_answer >>

\* generate_task_pair lines 49-50 when the condition is false.
SkipVideo ==
    /\ pc = "video"
    /\ ~(config.generate_videos /\ video_generator)
    /\ video_path' = None
    /\ pc' = "prompt"
    /\ UNCHANGED << envVars, rng, taskNo, runStart, draws, physVars, imageVars,
                    animVars, nextObj, prompt, result, error, history,
                    encoder_answer >>

\* _generate_video up to the call of _create_refraction_animation_frames,
\* and that function's lines 306-309.  The call site passes the default
\* counts; the other arguments are the function called directly.
BeginFrames ==
    /\ pc = "video"
    /\ config.generate_videos /\ video_generator
    /\ \E a \in FrameCountArgs :
          /\ hold_frames' = a[1]
          /\ transition_frames' = a[2]
          /\ pc' = IF a[1] > 0 THEN "hold_initial" ELSE "transition"
    /\ frames' = << >>
    /\ first_frame' = RenderInitialState(config.image_size, task_data,
                                         <<taskNo, nextObj>>)
    /\ nextObj' = nextObj + 1
    /\ k' = 0
    /\ UNCHANGED << envVars, rng, taskNo, runStart, draws, physVars, imageVars,
                    final_frame, video_path, prompt, result, error, history,
                    encoder_answer >>

\* lines 310-311: for _ in range(hold_frames): frames.append(first_frame)
HoldInitial ==
    /\ pc = "hold_initial"
    /\ k < hold_frames
    /\ frames' = Append(frames, first_frame)
    /\ k' = IF LoopContinues(k, hold_frames) THEN k + 1 ELSE 0
    /\ pc' = IF LoopContinues(k, hold_frames) THEN "hold_initial" ELSE "transition"
    /\ UNCHANGED << envVars, rng, taskNo, runStart, draws, physVars, imageVars,
                    hold_frames, transition_frames, first_frame, final_frame,
                    nextObj, video_path, prompt, result, error, history,
                    encoder_answer >>

\* lines 330-409: one iteration of the transition loop.
Transition ==
    /\ pc = "transition"
    /\ k < transition_frames
    /\ IF /\ ProgressPositive(Progress(k, transition_frames))
          /\ ClipToBoundary(config.image_size,
                            task_data.theta_refracted_degrees).error
       THEN /\ pc' = "raised"
            /\ error' = "ZeroDivisionError"
            /\ UNCHANGED << frames, k, nextObj >>
       ELSE /\ frames' = Append(frames,
                            TransitionFrame(config.image_size, task_data, k,
                                            transition_frames,
                                            <<taskNo, nextObj>>))
            /\ nextObj' = nextObj + 1
            /\ k' = IF LoopContinues(k, transition_frames) THEN k + 1 ELSE 0
            /\ pc' = IF LoopContinues(k, transition_frames)
                     THEN "transition" ELSE "final_frame"
            /\ error' = None
    /\ UNCHANGED << envVars, rng, taskNo, runStart, draws, physVars, imageVars,
                    hold_frames, transition_frames, first_frame, final_frame,
                    video_path, prompt, result, history,
                    encoder_answer >>

\* line 412: final_frame = self._render_final_state(task_data)
RenderFinalFrame ==
    /\ pc = "final_frame"
    /\ final_frame' = RenderFinalState(config.image_size, task_data,
                                       <<taskNo, nextObj>>)
    /\ nextObj' = nextObj + 1
    /\ k' = 0
    /\ pc' = IF hold_frames > 0 THEN "hold_final" ELSE "encode"
    /\ UNCHANGED << envVars, rng, taskNo, runStart, draws, physVars, imageVars,
                    hold_frames, transition_frames, frames, first_frame,
                    video_path, prompt, result, error, history,
                    encoder_answer >>

\* lines 413-414: for _ in range(hold_frames): frames.append(final_frame)
HoldFinal ==
    /\ pc = "hold_final"
    /\ k < hold_frames
    /\ frames' = Append(frames, final_frame)
    /\ k' = IF LoopContinues(k, hold_frames) THEN k + 1 ELSE 0
    /\ pc' = IF LoopContinues(k, hold_frames) THEN "hold_final" ELSE "encode"
    /\ UNCHANGED << envVars, rng, taskNo, runStart, draws, physVars, imageVars,
                    hold_frames, transition_frames, first_frame, final_frame,
                    nextObj, video_path, prompt, result, error, history,
                    encoder_answer >>

\* _generate_video lines 285-290: the encoder answers, and
\* video_path = str(result) if result else None.
EncodeVideo ==
    /\ pc = "encode"
    /\ \E answer \in EncoderResults :
          /\ encoder_answer' = answer
          /\ video_path' = IF answer # None THEN answer ELSE None
    /\ pc' = "prompt"
    /\ UNCHANGED << envVars, rng, taskNo, runStart, draws, physVars, imageVars,
                    animVars, nextObj, prompt, result, error, history >>

\* generate_task_pair lines 54-55: get_prompt (prompts.py:37-45).
GetPrompt ==
    /\ pc = "prompt"
    /\ prompt' = [ template |-> 1 + Choice(NumTemplates, rng),
                   n_glass  |-> FormatTwoDecimals(task_data.n_glass) ]
    /\ rng' = RngNext(rng)
    /\ draws' = Append(draws, "prompt_template")
    /\ pc' = "return"
    /\ UNCHANGED << envVars, taskNo, runStart, physVars, imageVars, animVars,
                    nextObj, video_path, result, error, history,
                    encoder_answer >>

\* generate_task_pair lines 57-65.
ReturnTaskPair ==
    /\ pc = "return"
    /\ result' = [ returned |-> TRUE,
                   prompt |-> prompt,
                   first_image |-> first_image,
                   final_image |-> final_image,
                   ground_truth_video |-> video_path ]
    /\ history' = Append(history,
                      [ start |-> runStart, end |-> rng, draws |-> draws,
                        n_glass |-> task_data.n_glass,
                        theta_incident_degrees |-> task_data.theta_incident_degrees,
                        theta_refracted_degrees |-> task_data.theta_refracted_degrees,
                        prompt |-> prompt ])
    /\ pc' = "returned"
    /\ UNCHANGED << envVars, rng, taskNo, runStart, draws, physVars, imageVars,
                    animVars, nextObj, video_path, prompt, error,
                    encoder_answer >>

\* The caller takes the pair; the call's locals are gone.
NextTask ==
    /\ pc = "returned"
    /\ taskNo' = taskNo + 1
    /\ pc' = "idle"
    /\ draws' = << >>
    /\ sin_raw' = 0
    /\ clamp_taken' = FALSE
    /\ task_data' = NoTaskData
    /\ first_image' = NoImage
    /\ final_image' = NoImage
    /\ hold_frames' = 0
    /\ transition_frames' = 0
    /\ frames' = << >>
    /\ first_frame' = NoImage
    /\ final_frame' = NoImage
    /\ k' = 0
    /\ nextObj' = 0
    /\ encoder_answer' = "not called"
    /\ video_path' = None
    /\ prompt' = NoPrompt
    /\ result' = NoPair
    /\ UNCHANGED << envVars, rng, runStart, error, history >>

Next ==
    \/ Reseed
    \/ GenerateTaskData
    \/ RenderFirstImage
    \/ RenderFinalImage
    \/ SkipVideo
    \/ BeginFrames
    \/ HoldInitial
    \/ Transition
    \/ RenderFinalFrame
    \/ HoldFinal
    \/ EncodeVideo
    \/ GetPrompt
    \/ ReturnTaskPair
    \/ NextTask

Spec == Init /\ [][Next]_vars

\* ------------------------------------------- the render functions, directly
\* _render_initial_state, _render_final_state and
\* _create_refraction_animation_frames take any task_data dictionary:
\* RenderSpec calls them on every refracted angle of -90..90 degrees.
RenderSizes == ImageSizes \cup { <<100, 100>> }

IncidentSamples == { 30, 80 }

RenderInit ==
    /\ config \in { c \in Configs :
                      /\ c.generate_videos
                      /\ c.n_glass_min = 1300 /\ c.theta_min = 5
                      /\ c.random_seed = 0 }
                  \cup
                  { [ image_size |-> <<100, 100>>, generate_videos |-> TRUE,
                      n_glass_min |-> 1300, n_glass_max |-> 2000,
                      theta_min |-> 5, theta_max |-> 80, n_air |-> Milli,
                      random_seed |-> 0 ] }
    /\ encoder_available = TRUE
    /\ video_generator = TRUE
    /\ rng = 0
    /\ pc = "render_initial"
    /\ taskNo = 0
    /\ runStart = 0
    /\ draws = << >>
    /\ sin_raw = 0
    /\ clamp_taken = FALSE
    /\ task_data \in [ n_glass : {1500}, n_air : {Milli},
                       theta_incident_degrees  : IncidentSamples,
                       theta_refracted_degrees : (-90)..90,
                       type : {"default"} ]
    /\ first_image = NoImage
    /\ final_image = NoImage
    /\ hold_frames = 0
    /\ transition_frames = 0
    /\ frames = << >>
    /\ first_frame = NoImage
    /\ final_frame = NoImage
    /\ k = 0
    /\ nextObj = 0
    /\ encoder_answer = "not called"
    /\ video_path = None
    /\ prompt = NoPrompt
    /\ result = NoPair
    /\ error = None
    /\ history = << >>

RenderNext ==
    \/ RenderFirstImage
    \/ RenderFinalImage
    \/ BeginFrames
    \/ HoldInitial
    \/ Transition
    \/ RenderFinalFrame
    \/ HoldFinal

RenderSpec == RenderInit /\ [][RenderNext]_vars

\* ================================================================= claims
\* The frame list is complete when _create_refraction_animation_frames
\* returns it, i.e. when the encoder is about to be called.
FramesReturned == pc = "encode"

\* The 1-based positions of the three phases in a list built for
\* hold_frames and transition_frames.
InInitialHold(j) == 1 <= j /\ j <= hold_frames
InTransition(j)  == hold_frames < j /\ j <= hold_frames + transition_frames
InFinalHold(j)   == hold_frames + transition_frames < j
                        /\ j <= 2 * hold_frames + transition_frames

\* C1: for every hold >= 0 and transitions >= 1 the list returned by
\* _create_refraction_animation_frames has exactly 2*hold + transitions
\* frames.
C1_FrameCount ==
    FramesReturned =>
        /\ hold_frames >= 0 /\ transition_frames >= 1
        /\ Len(frames) = 2 * hold_frames + transition_frames

C1_Witness ==
    /\ FramesReturned
    /\ hold_frames = hold_frames_default
    /\ transition_frames = transition_frames_default
    /\ Len(frames) = 35

\* Rank of a frame's phase.
PhaseRank(f) == CASE f.mode = "initial"    -> 0
                  [] f.mode = "transition" -> 1
                  [] f.mode = "final"      -> 2
                  [] OTHER                 -> 3

\* p < q for two progress fractions.
ProgressLess(p, q) == p[1] * q[2] < q[1] * p[2]

\* C2: the animation is three consecutive phases: the first hold positions
\* hold the initial-state frame, the next transitions positions hold the
\* transition frames in increasing index (so increasing progress), the last
\* hold positions hold the final-state frame; at no time while the list is
\* built does a frame of a later phase precede one of an earlier phase.
C2_PhaseOrder ==
    /\ \A j \in 1..(Len(frames) - 1) :
          /\ PhaseRank(frames[j]) <= PhaseRank(frames[j + 1])
          /\ (frames[j].mode = "transition" /\ frames[j + 1].mode = "transition")
                => ProgressLess(frames[j].progress, frames[j + 1].progress)
    /\ FramesReturned =>
          \A j \in 1..Len(frames) :
             /\ InInitialHold(j) => frames[j] = first_frame /\ frames[j].mode = "initial"
             /\ InTransition(j)  =>
                   /\ frames[j].mode = "transition"
                   /\ transition_frames > 1 =>
                        frames[j].progress = <<j - hold_frames - 1, transition_frames - 1>>
             /\ InFinalHold(j)   => frames[j] = final_frame /\ frames[j].mode = "final"

C2_Witness ==
    /\ FramesReturned
    /\ hold_frames = 1 /\ transition_frames = 3
    /\ frames[1].mode = "initial"
    /\ frames[2].progress = <<0, 2>> /\ frames[3].progress = <<1, 2>>
    /\ frames[4].progress = <<2, 2>>
    /\ frames[5].mode = "final"

\* C3: in transition frame i, with progress = i/(transitions-1) (1.0 when
\* transitions = 1), the angle arc and label are drawn if and only if
\* progress < 0.3; a single-transition animation has no label in its
\* transition frame.
C3_LabelThreshold ==
    \A j \in 1..Len(frames) :
       frames[j].mode = "transition" =>
          LET i == j - hold_frames - 1
          IN  /\ i \in 0..(transition_frames - 1)
              /\ IF transition_frames = 1
                 THEN frames[j].label = FALSE
                 ELSE frames[j].label = (10 * i < 3 * (transition_frames - 1))

C3_Witness ==
    /\ FramesReturned
    /\ transition_frames = 11 /\ hold_frames = 0
    /\ frames[3].label /\ frames[3].progress = <<2, 10>>
    /\ ~frames[4].label /\ frames[4].progress = <<3, 10>>

\* The refracted segment's end in the final image of the current sample.
FinalRendered == final_image.mode = "final"

OnCanvasEdge(size, e) ==
    \/ e.x = 0 \/ e.x = size[1] * Milli
    \/ e.y = 0 \/ e.y = size[2] * Milli

InsideCanvas(size, e) ==
    /\ 0 <= e.x /\ e.x <= size[1] * Milli
    /\ 0 <= e.y /\ e.y <= size[2] * Milli

\* e lies on the ray that leaves the centre at angle theta from the
\* downward normal: x - center_x = (y - glass_y) * tan(theta), to within the
\* last digit of the quotient.
OnRay(size, theta, e) ==
    LET c == Center(size)
        t == Tan(theta)
        dx == e.x - c[1] * Milli
        dy == e.y - c[2] * Milli
    IN  /\ dy >= 0
        /\ Abs(dx * Milli - dy * t) <= Abs(t)

\* C4: for every refracted angle in [0, 90) degrees and every canvas size
\* the clip started at the interface centre ends on a canvas edge, inside
\* the canvas, on the ray (so no edge is crossed earlier); for angle 0 it
\* takes the bottom-edge branch with x the centre's x, and no tangent of
\* zero is ever divided by.
C4_ClipOnEdge ==
    (task_data.theta_refracted_degrees \in 0..89 /\ task_data.type = "default") =>
        /\ error # "ZeroDivisionError"
        /\ FinalRendered =>
              LET e == final_image.refracted
                  size == config.image_size
                  theta == task_data.theta_refracted_degrees
              IN  /\ e.drawn
                  /\ OnCanvasEdge(size, e)
                  /\ InsideCanvas(size, e)
                  /\ OnRay(size, theta, e)
                  /\ theta = 0 =>
                        /\ ClipToBoundary(size, theta).branch = "bottom"
                        /\ e.x = Center(size)[1] * Milli
                        /\ e.y = size[2] * Milli

C4_Witness ==
    /\ FinalRendered
    /\ config.image_size = <<512, 512>>
    /\ task_data.theta_refracted_degrees = 60
    /\ final_image.refracted.x = 512 * Milli
    /\ final_image.refracted.y > 256 * Milli
    /\ final_image.refracted.y < 512 * Milli

\* C5: the refraction computation has no error outcome: whenever
\* n_glass > 0 it returns a refracted angle in [0, 90] degrees, never a
\* negative angle and never a domain error.
C5_RefractionTotal ==
    config.n_glass_min > 0 =>
        /\ error # "ValueError"
        /\ task_data.type = "default" =>
              task_data.theta_refracted_degrees \in 0..90

\* The index sampled by the current call.
SampledNGlass == Uniform(config.n_glass_min, config.n_glass_max, runStart)

TaskDataGenerated == pc \notin {"idle"}

\* C6: for every n_glass >= n_air and every incident angle of the
\* configured range, sin_theta_refracted before the clamp is <= 1 and the
\* clamp branch is not taken.
C6_ClampUnreachable ==
    (TaskDataGenerated /\ SampledNGlass >= config.n_air) =>
        /\ sin_raw <= Milli
        /\ ~clamp_taken

C6_Witness ==
    /\ pc = "render_initial"
    /\ SampledNGlass = config.n_air
    /\ task_data.theta_incident_degrees = 90
    /\ sin_raw = Milli
    /\ ~clamp_taken

\* The part of C7 about the optional video: a returned pair carries both
\* still images as rendered, and no video when video generation is
\* disabled, the encoder was unavailable at construction or it answered
\* with a failure.
C7_VideoOmitted ==
    pc = "returned" =>
        /\ result.returned
        /\ result.first_image = RenderInitialState(config.image_size, task_data, <<taskNo, 0>>)
        /\ result.final_image = RenderFinalState(config.image_size, task_data, <<taskNo, 1>>)
        /\ (~config.generate_videos \/ ~encoder_available \/ encoder_answer = None)
              => result.ground_truth_video = None

\* C7: generate_task_pair always returns a task pair with both images (no
\* call ends in an exception), and the video is None when generation is
\* disabled, the encoder is unavailable or it fails.
C7_AlwaysReturnsPair ==
    /\ pc # "raised"
    /\ C7_VideoOmitted

\* Positions of generate_task_pair where rendering or animation runs.
RenderPcs == { "render_initial", "render_final", "video", "hold_initial",
               "transition", "final_frame", "hold_final", "encode", "prompt" }

ThreeDraws == << "n_glass", "theta_incident", "prompt_template" >>

\* C8: two serialized calls started from the same generator state yield
\* the same physics sample and prompt; each call advances the generator by
\* exactly three draws, in the order n_glass, incident angle, prompt
\* template; the render and animation steps draw nothing.
C8_Deterministic ==
    /\ \A a \in 1..Len(history) : \A b \in 1..Len(history) :
          history[a].start = history[b].start =>
             /\ history[a].n_glass = history[b].n_glass
             /\ history[a].theta_incident_degrees = history[b].theta_incident_degrees
             /\ history[a].theta_refracted_degrees = history[b].theta_refracted_degrees
             /\ history[a].prompt = history[b].prompt
    /\ \A a \in 1..Len(history) :
          /\ history[a].draws = ThreeDraws
          /\ history[a].end = RngNext(RngNext(RngNext(history[a].start)))
    /\ pc \in RenderPcs =>
          /\ draws = SubSeq(ThreeDraws, 1, 2)
          /\ rng = RngNext(RngNext(runStart))

C8_Witness ==
    /\ Len(history) = 2
    /\ history[1].start = history[2].start
    /\ history[1].prompt.template = history[2].prompt.template
    /\ history[1].n_glass = history[2].n_glass

\* C9: in transition frame i the refracted ray runs from the centre to
\* centre + progress * (final_end - centre): it has length 0 (is not drawn)
\* at progress 0, and in the last transition frame its end is the end the
\* final-state image draws for the same sample.
C9_RayInterpolated ==
    FinalRendered =>
      \A j \in 1..Len(frames) :
        frames[j].mode = "transition" =>
          LET i   == j - hold_frames - 1
              num == IF transition_frames > 1 THEN i ELSE 1
              den == IF transition_frames > 1 THEN transition_frames - 1 ELSE 1
              cx  == Center(config.image_size)[1] * Milli
              cy  == Center(config.image_size)[2] * Milli
              fin == final_image.refracted
              f   == frames[j].refracted
          IN  IF num = 0
              THEN ~f.drawn
              ELSE /\ f.drawn
                   /\ Abs((f.x - cx) * den - (fin.x - cx) * num) < den
                   /\ Abs((f.y - cy) * den - (fin.y - cy) * num) < den
                   /\ num = den => (f.x = fin.x /\ f.y = fin.y)

C9_Witness ==
    /\ FramesReturned /\ FinalRendered
    /\ hold_frames = 0 /\ transition_frames = 3
    /\ task_data.theta_refracted_degrees = 30
    /\ ~frames[1].refracted.drawn
    /\ frames[2].refracted.drawn
    /\ frames[2].refracted.y < final_image.refracted.y
    /\ frames[3].refracted.x = final_image.refracted.x
    /\ frames[3].refracted.y = final_image.refracted.y
    /\ final_image.refracted.x > Center(config.image_size)[1] * Milli

\* C10: for every ray angle, the left-edge and right-edge branches
\* included, the clipped end lies on the canvas boundary with its y between
\* the interface and the bottom edge.
C10_ClipBelowInterface ==
    FinalRendered =>
        LET e == final_image.refracted
            size == config.image_size
        IN  /\ OnCanvasEdge(size, e)
            /\ Center(size)[2] * Milli <= e.y
            /\ e.y <= size[2] * Milli

\* C11: no two positions of the animation frame list share mutable state:
\* every frame of the sequence, each hold copy of the initial and of the
\* final frame included, is a distinct raster object.
C11_FramesDistinct ==
    \A a \in 1..Len(frames) : \A b \in 1..Len(frames) :
        a # b => frames[a].obj # frames[b].obj

\* The images the current call has rendered: the two stills and the frames.
RenderedImages ==
    { im \in {first_image, final_image} : im.mode # "none" }
        \cup { frames[j] : j \in 1..Len(frames) }

\* C12 as stated: for every canvas size (W, H) the scene centre of every
\* render mode is exactly (W/2, H/2), the interface lies at y = H/2 and the
\* incident ray ends there.
C12_CenterExact ==
    \A im \in RenderedImages :
        /\ 2 * im.center[1] = config.image_size[1]
        /\ 2 * im.center[2] = config.image_size[2]
        /\ im.glass_y = im.center[2]
        /\ im.incident.end = << im.center[1] * Milli, im.center[2] * Milli >>

\* C12 as amended: the scene centre of every render mode is
\* (floor(W/2), floor(H/2)) and the interface lies at y = floor(H/2), where
\* the incident ray ends; this is the exact centre when W and H are even
\* and half a pixel left of / above it for an odd W / H.
C12_CenterFloor ==
    \A im \in RenderedImages :
        LET W == config.image_size[1]
            H == config.image_size[2]
        IN  /\ 2 * im.center[1] <= W /\ W <= 2 * im.center[1] + 1
            /\ 2 * im.center[2] <= H /\ H <= 2 * im.center[2] + 1
            /\ im.glass_y = im.center[2]
            /\ im.incident.end = << im.center[1] * Milli, im.center[2] * Milli >>

C12_Witness ==
    /\ FramesReturned
    /\ config.image_size = <<301, 701>>
    /\ first_image.center = <<150, 350>>
    /\ final_image.glass_y = 350
    /\ \E j \in 1..Len(frames) :
          /\ frames[j].mode = "transition"
          /\ frames[j].incident.end = <<150 * Milli, 350 * Milli>>

\* C13: every frame of the animation and both still images draw the same
\* full incident ray for a sample: from
\* (center_x - (center_y - 50) * tan(theta_incident), 50) to the interface
\* centre, whatever the progress or the render mode.
C13_IncidentRayFixed ==
    \A im \in RenderedImages :
        LET cx == FloorDiv(config.image_size[1], 2)
            cy == FloorDiv(config.image_size[2], 2)
        IN  /\ im.incident.start[1] =
                  cx * Milli - (cy - 50) * Tan(task_data.theta_incident_degrees)
            /\ im.incident.start[2] = 50 * Milli
            /\ im.incident.end = << cx * Milli, cy * Milli >>

C13_Witness ==
    /\ FramesReturned
    /\ hold_frames = 1 /\ transition_frames = 3
    /\ task_data.theta_incident_degrees > 0
    /\ first_image.incident.start[1] < first_image.incident.end[1]
    /\ frames[1].incident = first_image.incident
    /\ frames[3].incident = first_image.incident
    /\ frames[5].incident = final_image.incident
    /\ final_image.incident = first_image.incident

\* C14: over the whole animation sequence the angle arc and label are
\* visible on a contiguous prefix only: after a frame without the label no
\* later frame shows it.
C14_LabelPrefix ==
    \A a \in 1..Len(frames) : \A b \in 1..Len(frames) :
        (a < b /\ ~frames[a].label) => ~frames[b].label

C14_Witness ==
    /\ FramesReturned
    /\ hold_frames = hold_frames_default
    /\ transition_frames = transition_frames_default
    /\ frames[1].label /\ frames[5].label
    /\ frames[6].label /\ frames[13].label
    /\ ~frames[14].label /\ ~frames[30].label
    /\ ~frames[31].label /\ ~frames[35].label

\* Length of an image's refracted segment, 0 when it is not drawn.  All
\* segments of one sample leave the centre in one direction, so the sum of
\* the two coordinate extents orders them as their lengths do.
RayExtent(im) ==
    IF im.refracted.drawn
    THEN Abs(im.refracted.x - im.center[1] * Milli)
            + Abs(im.refracted.y - im.center[2] * Milli)
    ELSE 0

\* C15: over the whole animation sequence the refracted ray's length never
\* decreases from a frame to the next: the ray is absent in the initial hold
\* frames and in the transition frame of progress 0, grows strictly over the
\* transition frames of progress > 0, has its full boundary-clipped length
\* in the final hold frames, and once drawn it never disappears.
C15_RayGrows ==
    /\ \A j \in 1..Len(frames) :
          /\ frames[j].mode = "initial" => ~frames[j].refracted.drawn
          /\ frames[j].mode = "transition" =>
                (frames[j].refracted.drawn <=> frames[j].progress[1] > 0)
          /\ frames[j].mode = "final" =>
                /\ frames[j].refracted.drawn
                /\ FinalRendered => frames[j].refracted = final_image.refracted
                /\ RayExtent(frames[j]) > 0
    /\ \A j \in 1..(Len(frames) - 1) :
          /\ RayExtent(frames[j]) <= RayExtent(frames[j + 1])
          /\ frames[j].refracted.drawn => frames[j + 1].refracted.drawn
          /\ (frames[j + 1].mode = "transition" /\ frames[j + 1].progress[1] > 0)
                => RayExtent(frames[j]) < RayExtent(frames[j + 1])

C15_Witness ==
    /\ FramesReturned
    /\ hold_frames = 1 /\ transition_frames = 3
    /\ RayExtent(frames[1]) = 0
    /\ RayExtent(frames[2]) = 0
    /\ 0 < RayExtent(frames[3])
    /\ RayExtent(frames[3]) < RayExtent(frames[4])
    /\ RayExtent(frames[4]) = RayExtent(frames[5])
    /\ frames[5].mode = "final"

====
